---- MODULE Spec2Model ----
(***************************************************************************)
(* nufmt: the single-pass formatting engine of src/src/lib.rs.             *)
(*                                                                         *)
(* format_nu_buffered reads its input one byte at a time and writes the    *)
(* formatted bytes to a writer; format_nu runs it over an in-memory text.  *)
(* Bytes are modelled by their numeric value.  Every byte in the writer    *)
(* carries two history fields that the program does not keep: `site`, the  *)
(* write_all call that produced it, and `at`, the 1-based position of the  *)
(* input byte whose loop iteration wrote it.  The sites are                *)
(*   "comment"  the echo of a byte inside a comment        (lines 66, 69)  *)
(*   "string"   the echo of a byte inside a string         (line 89)       *)
(*   "colon"    the echo of `:` by its own match arm       (line 131)      *)
(*   "space"    the space written after that `:`           (line 132)      *)
(*   "push"     the auto_push echo of the else branch      (line 153)      *)
(*   "newline"  the newline of a line break                (lines 109,141) *)
(*   "indent"   a byte written by indent_buffered          (lines 174,177) *)
(***************************************************************************)
EXTENDS Integers, Sequences, FiniteSets, TLC

\* ------------------------------------------------------------------ bounds
\* Longest input fed byte by byte to one call of format_nu_buffered.
MaxLen == 4

\* Most elements of a flat container handed to format_nu in one piece.
MaxElems == 3

\* ------------------------------------------------------- byte vocabulary
TAB == 9
NL == 10
SP == 32
QUOTE == 34
HASH == 35
COMMA == 44
COLON == 58
LBRACKET == 91
BACKSLASH == 92
RBRACKET == 93
LETTER == 97
LBRACE == 123
RBRACE == 125

Openers == {LBRACKET, LBRACE}
Closers == {RBRACKET, RBRACE}

\* The bytes the reader delivers one at a time in the model: one byte for
\* every match arm of the engine, a raw space and an ordinary byte.  `{`
\* and `}` share their arms with `[` and `]` and a tab shares the `_` arm
\* with the space, so they are left to the whole-buffer calls below.
Byte == {NL, SP, QUOTE, HASH, COMMA, COLON, LBRACKET, BACKSLASH, RBRACKET,
         LETTER}

\* ------------------------------------------------------------ Indentation
\* enum Indentation { Default, Custom(&str) }; `unit` is the custom string
\* as bytes and is not used by Default.
Default == [kind |-> "Default", unit |-> << >>]

Custom(s) == [kind |-> "Custom", unit |-> s]

\* The configurations a call is tried with: the default, an empty custom
\* unit and a multi-character custom unit.
Indentations == {Default, Custom(<< >>), Custom(<<TAB, SP>>)}

\* What one pass of the loop in indent_buffered writes.
IndentUnit(indent_str) ==
    IF indent_str.kind = "Default" THEN <<SP, SP>> ELSE indent_str.unit

\* ----------------------------------------------------------------- writer
Out(b, k, i) == [byte |-> b, site |-> k, at |-> i]

RECURSIVE WriteAll(_, _, _, _)
\* writer.write_all(bytes): append bytes in order.
WriteAll(w, bytes, k, i) ==
    IF bytes = << >> THEN w
    ELSE WriteAll(Append(w, Out(Head(bytes), k, i)), Tail(bytes), k, i)

RECURSIVE indent_buffered_Inclusive(_, _, _, _)
\* Mutant of indent_buffered: the range is 0..=level, one unit too many.
indent_buffered_Inclusive(w, level, indent_str, i) ==
    IF level < 0 THEN w
    ELSE indent_buffered_Inclusive(WriteAll(w, IndentUnit(indent_str), "indent", i),
                                   level - 1, indent_str, i)

RECURSIVE indent_buffered(_, _, _, _)
\* for _ in 0..level { write the unit }
indent_buffered(w, level, indent_str, i) ==
    IF level = 0 THEN w
    ELSE indent_buffered(WriteAll(w, IndentUnit(indent_str), "indent", i),
                         level - 1, indent_str, i)

\* writer.write_all(&[b'\n'])?; indent_buffered(writer, indent_level, ..)?;
LineBreak(w, level, indent_str, i) ==
    indent_buffered(Append(w, Out(NL, "newline", i)), level, indent_str, i)

\* Mutant of saturating_sub: the distance (abs_diff) instead of the
\* saturating difference.
saturating_sub_AbsDiff(a, b) == IF a >= b THEN a - b ELSE b - a

\* usize::saturating_sub
saturating_sub(a, b) == IF a >= b THEN a - b ELSE 0

\* ----------------------------------------------------------- engine state
\* The locals of format_nu_buffered, as they are before the first byte.
InitLocals ==
    [escaped |-> FALSE, in_string |-> FALSE, indent_level |-> 0,
     newline_requested |-> FALSE, in_comment |-> FALSE, writer |-> << >>]

\* if in_comment { ... }: every byte is written; a newline ends the comment
\* and falls through to the rest of the loop body, any other byte continues.
CommentBlock(st, c, i) ==
    [st EXCEPT !.in_comment = (c # NL),
               !.writer = Append(@, Out(c, "comment", i))]

\* Mutant of StringBlock: a quote ends the string even when it is escaped.
StringBlock_IgnoresEscape(st, c, i) ==
    LET escape_here == (c = BACKSLASH) /\ ~st.escaped
    IN  [st EXCEPT !.in_string = IF c = QUOTE THEN FALSE ELSE @,
                   !.writer = Append(@, Out(c, "string", i)),
                   !.escaped = escape_here]

\* Mutant of StringBlock: every backslash sets the escape, even one that is
\* itself escaped.
StringBlock_EveryBackslashEscapes(st, c, i) ==
    LET escape_here == (c = BACKSLASH)
    IN  [st EXCEPT !.in_string = IF c = QUOTE /\ ~st.escaped THEN FALSE ELSE @,
                   !.writer = Append(@, Out(c, "string", i)),
                   !.escaped = escape_here]

\* if in_string { ... }
StringBlock(st, c, i) ==
    LET escape_here == (c = BACKSLASH) /\ ~st.escaped
    IN  [st EXCEPT !.in_string = IF c = QUOTE /\ ~st.escaped THEN FALSE ELSE @,
                   !.writer = Append(@, Out(c, "string", i)),
                   !.escaped = escape_here]

\* Mutant of MatchArm: the closer arm writes its line break at the level
\* it found, before the decrement takes effect.
MatchArm_BreakAtOldLevel(st, c, i, indentation) ==
    CASE c = HASH -> [st EXCEPT !.in_comment = TRUE]
      [] c = QUOTE -> [st EXCEPT !.in_string = TRUE]
      [] c \in Openers -> [st EXCEPT !.indent_level = @ + 1]
      [] c \in Closers ->
            LET level == saturating_sub(st.indent_level, 1)
            IN  [st EXCEPT !.indent_level = level,
                           !.writer = IF ~st.newline_requested
                                      THEN LineBreak(@, st.indent_level,
                                                     indentation, i)
                                      ELSE @]
      [] c = COLON ->
            [st EXCEPT !.writer = Append(Append(@, Out(c, "colon", i)),
                                         Out(SP, "space", i))]
      [] OTHER -> st

\* The match of the else branch: the arm taken by byte c.
MatchArm(st, c, i, indentation) ==
    CASE c = HASH -> [st EXCEPT !.in_comment = TRUE]
      [] c = QUOTE -> [st EXCEPT !.in_string = TRUE]
      [] c \in Openers -> [st EXCEPT !.indent_level = @ + 1]
      [] c \in Closers ->
            LET level == saturating_sub(st.indent_level, 1)
            IN  [st EXCEPT !.indent_level = level,
                           !.writer = IF ~st.newline_requested
                                      THEN LineBreak(@, level, indentation, i)
                                      ELSE @]
      [] c = COLON ->
            [st EXCEPT !.writer = Append(Append(@, Out(c, "colon", i)),
                                         Out(SP, "space", i))]
      [] OTHER -> st

\* Mutant of AutoPush: the `:` arm forgets to clear auto_push.
AutoPush_NeverCleared(c) == TRUE

\* let mut auto_push = true; cleared by the `:` arm only.
AutoPush(c) == c # COLON

\* Mutant of RequestNewline: the `,` arm does not request a newline.
RequestNewline_OpenersOnly(c) == c \in Openers

\* Mutant of RequestNewline: every byte that reaches the end of the else
\* branch requests a newline.
RequestNewline_EveryByte(c) == c = c

\* let mut request_newline = false; set by the `[`, `{` and `,` arms.
RequestNewline(c) == c \in Openers \cup {COMMA}

\* Mutant of NormalBlock: the `\n => continue` arm is missing, so a raw
\* newline takes the `_` arm.
NormalBlock_NewlineNotSkipped(st, c, i, indentation) ==
    LET s1 == MatchArm(st, c, i, indentation)
        s2 == IF st.newline_requested
              THEN [s1 EXCEPT !.writer =
                       LineBreak(@, s1.indent_level, indentation, i)]
              ELSE s1
        s3 == IF AutoPush(c)
              THEN [s2 EXCEPT !.writer = Append(@, Out(c, "push", i))]
              ELSE s2
    IN  [s3 EXCEPT !.newline_requested = RequestNewline(c)]

\* Mutant of NormalBlock: the pending line break is indented at the level
\* the iteration started with (old_level) instead of the current one.
NormalBlock_OldLevel(st, c, i, indentation) ==
    IF c = NL THEN st
    ELSE LET s1 == MatchArm(st, c, i, indentation)
             s2 == IF st.newline_requested
                   THEN [s1 EXCEPT !.writer =
                            LineBreak(@, st.indent_level, indentation, i)]
                   ELSE s1
             s3 == IF AutoPush(c)
                   THEN [s2 EXCEPT !.writer = Append(@, Out(c, "push", i))]
                   ELSE s2
         IN  [s3 EXCEPT !.newline_requested = RequestNewline(c)]

\* The else branch (neither in a string nor in a comment).
NormalBlock(st, c, i, indentation) ==
    IF c = NL THEN st
    ELSE LET s1 == MatchArm(st, c, i, indentation)
             s2 == IF st.newline_requested
                   THEN [s1 EXCEPT !.writer =
                            LineBreak(@, s1.indent_level, indentation, i)]
                   ELSE s1
             s3 == IF AutoPush(c)
                   THEN [s2 EXCEPT !.writer = Append(@, Out(c, "push", i))]
                   ELSE s2
         IN  [s3 EXCEPT !.newline_requested = RequestNewline(c)]

\* Mutant of LoopBody: a byte read inside a string also sets the newline
\* request it would set in Normal mode.
LoopBody_StringRequestsNewline(st, c, i, indentation) ==
    LET s0 == IF st.in_comment THEN CommentBlock(st, c, i) ELSE st
    IN  IF st.in_comment /\ c # NL THEN s0
        ELSE IF s0.in_string
             THEN [StringBlock(s0, c, i) EXCEPT
                      !.newline_requested = RequestNewline(c)]
        ELSE NormalBlock(s0, c, i, indentation)

\* One iteration of `for char in reader.bytes()` on byte c, the i-th byte.
LoopBody(st, c, i, indentation) ==
    LET s0 == IF st.in_comment THEN CommentBlock(st, c, i) ELSE st
    IN  IF st.in_comment /\ c # NL THEN s0
        ELSE IF s0.in_string THEN StringBlock(s0, c, i)
        ELSE NormalBlock(s0, c, i, indentation)

RECURSIVE RunLoop(_, _, _, _)
\* The whole loop over the bytes of the reader, starting at byte i.
RunLoop(st, bytes, i, indentation) ==
    IF bytes = << >> THEN st
    ELSE RunLoop(LoopBody(st, Head(bytes), i, indentation),
                 Tail(bytes), i + 1, indentation)

\* The bytes a writer holds.
Bytes(w) == [k \in 1..Len(w) |-> w[k].byte]

\* format_nu_buffered over an in-memory reader: the bytes left in the writer.
format_nu_buffered(bytes, indentation) ==
    Bytes(RunLoop(InitLocals, bytes, 1, indentation).writer)

\* ------------------------------------------------------------------ UTF-8
RECURSIVE IsUtf8(_)
\* String::from_utf8 accepts exactly the well-formed byte sequences.
IsUtf8(b) ==
    LET cont(k) == k <= Len(b) /\ b[k] >= 128 /\ b[k] <= 191
    IN  IF b = << >> THEN TRUE
        ELSE IF b[1] < 128 THEN IsUtf8(Tail(b))
        ELSE IF b[1] >= 194 /\ b[1] <= 223
             THEN cont(2) /\ IsUtf8(SubSeq(b, 3, Len(b)))
        ELSE IF b[1] >= 224 /\ b[1] <= 239
             THEN /\ cont(2) /\ cont(3)
                  /\ (b[1] = 224 => b[2] >= 160)
                  /\ (b[1] = 237 => b[2] <= 159)
                  /\ IsUtf8(SubSeq(b, 4, Len(b)))
        ELSE IF b[1] >= 240 /\ b[1] <= 244
             THEN /\ cont(2) /\ cont(3) /\ cont(4)
                  /\ (b[1] = 240 => b[2] >= 144)
                  /\ (b[1] = 244 => b[2] <= 143)
                  /\ IsUtf8(SubSeq(b, 5, Len(b)))
        ELSE FALSE

\* The result of a call that panics.
Panic == <<-1>>

\* format_nu: run the engine over nu.as_bytes() and turn the written bytes
\* back into a String; both unwraps panic on failure.
format_nu(nu, indentation) ==
    LET w == format_nu_buffered(nu, indentation)
    IN  IF IsUtf8(w) THEN w ELSE Panic

\* ------------------------------------------------------------------ state
VARIABLES
    indentation,        \* the Indentation argument of the call
    consumed,           \* the bytes reader.bytes() has yielded so far
    escaped, in_string, indent_level, newline_requested, in_comment,
    writer,             \* the bytes written so far, with their history
    result,             \* "running" inside the loop, "Ok" after Ok(()),
                        \* "Err" after a `?` returned an I/O error
    seen                \* history: seen[i] is the flags and the level the
                        \* i-th byte was read with

vars == <<indentation, consumed, escaped, in_string, indent_level,
          newline_requested, in_comment, writer, result, seen>>

Locals ==
    [escaped |-> escaped, in_string |-> in_string,
     indent_level |-> indent_level, newline_requested |-> newline_requested,
     in_comment |-> in_comment, writer |-> writer]

\* The locals without the writer.
Flags(st) ==
    [escaped |-> st.escaped, in_string |-> st.in_string,
     indent_level |-> st.indent_level,
     newline_requested |-> st.newline_requested, in_comment |-> st.in_comment]

Init ==
    /\ indentation \in Indentations
    /\ consumed = << >>
    /\ escaped = InitLocals.escaped
    /\ in_string = InitLocals.in_string
    /\ indent_level = InitLocals.indent_level
    /\ newline_requested = InitLocals.newline_requested
    /\ in_comment = InitLocals.in_comment
    /\ writer = InitLocals.writer
    /\ result = "running"
    /\ seen = << >>

\* The reader yields byte c and the loop body runs on it.
Iterate(c) ==
    /\ result = "running"
    /\ Len(consumed) < MaxLen
    /\ LET s == LoopBody(Locals, c, Len(consumed) + 1, indentation)
       IN  /\ escaped' = s.escaped
           /\ in_string' = s.in_string
           /\ indent_level' = s.indent_level
           /\ newline_requested' = s.newline_requested
           /\ in_comment' = s.in_comment
           /\ writer' = s.writer
    /\ consumed' = Append(consumed, c)
    /\ seen' = Append(seen, Flags(Locals))
    /\ UNCHANGED <<indentation, result>>

\* A byte read while in_comment is set.
ReadInComment == in_comment /\ \E c \in Byte : Iterate(c)

\* A byte read while in_string is set.
ReadInString == ~in_comment /\ in_string /\ \E c \in Byte : Iterate(c)

\* A raw newline read outside strings and comments: `continue`.
ReadNewline == ~in_comment /\ ~in_string /\ Iterate(NL)

\* `#` or `"` read outside strings and comments.
ReadModeSwitch ==
    ~in_comment /\ ~in_string /\ \E c \in {HASH, QUOTE} : Iterate(c)

\* `[` or `{` read outside strings and comments.
ReadOpener ==
    ~in_comment /\ ~in_string /\ \E c \in Openers \cap Byte : Iterate(c)

\* `]` or `}` read outside strings and comments.
ReadCloser ==
    ~in_comment /\ ~in_string /\ \E c \in Closers \cap Byte : Iterate(c)

\* `:` read outside strings and comments.
ReadColon == ~in_comment /\ ~in_string /\ Iterate(COLON)

\* `,` read outside strings and comments.
ReadComma == ~in_comment /\ ~in_string /\ Iterate(COMMA)

\* Any other byte read outside strings and comments (the `_` arm).
ReadOther ==
    /\ ~in_comment /\ ~in_string
    /\ \E c \in Byte \ ({NL, HASH, QUOTE, COLON, COMMA} \cup Openers \cup Closers) :
          Iterate(c)

\* Mutant of EndOfInput: a line break still pending when the reader is
\* exhausted is written before the function returns.
EndOfInput_FlushesBreak ==
    /\ result = "running"
    /\ result' = "Ok"
    /\ writer' = IF newline_requested
                 THEN LineBreak(writer, indent_level, indentation, Len(consumed))
                 ELSE writer
    /\ UNCHANGED <<indentation, consumed, escaped, in_string, indent_level,
                   newline_requested, in_comment, seen>>

\* The reader is exhausted: the loop ends and the function returns Ok(()).
EndOfInput ==
    /\ result = "running"
    /\ result' = "Ok"
    /\ UNCHANGED <<indentation, consumed, escaped, in_string, indent_level,
                   newline_requested, in_comment, writer, seen>>

Next ==
    \/ ReadInComment
    \/ ReadInString
    \/ ReadNewline
    \/ ReadModeSwitch
    \/ ReadOpener
    \/ ReadCloser
    \/ ReadColon
    \/ ReadComma
    \/ ReadOther
    \/ EndOfInput

Spec == Init /\ [][Next]_vars

\* ------------------------------------------------------- I/O failures
\* `let char = char?;`: the read of the next byte fails and the function
\* returns the error at once; nothing is written.
ReadFails ==
    /\ result = "running"
    /\ result' = "Err"
    /\ UNCHANGED <<indentation, consumed, escaped, in_string, indent_level,
                   newline_requested, in_comment, writer, seen>>

\* Mutant of WriteFails: the failed write is retried, so the bytes of the
\* iteration written before the failure are written again.
WriteFails_Retries ==
    /\ result = "running"
    /\ Len(consumed) < MaxLen
    /\ \E c \in Byte :
          LET s == LoopBody(Locals, c, Len(consumed) + 1, indentation)
              new == SubSeq(s.writer, Len(writer) + 1, Len(s.writer))
          IN  /\ new # << >>
              /\ \E n \in 0..(Len(new) - 1) :
                    writer' = writer \o SubSeq(new, 1, n) \o new
              /\ consumed' = Append(consumed, c)
              /\ seen' = Append(seen, Flags(Locals))
    /\ result' = "Err"
    /\ UNCHANGED <<indentation, escaped, in_string, indent_level,
                   newline_requested, in_comment>>

\* `writer.write_all(..)?`: byte c has been read and one of the writes of
\* its iteration fails, after n of the iteration's bytes have been written;
\* the function returns the error at once.  The locals end with the call
\* and are left as they were.
WriteFails ==
    /\ result = "running"
    /\ Len(consumed) < MaxLen
    /\ \E c \in Byte :
          LET s == LoopBody(Locals, c, Len(consumed) + 1, indentation)
              new == SubSeq(s.writer, Len(writer) + 1, Len(s.writer))
          IN  /\ new # << >>
              /\ \E n \in 0..(Len(new) - 1) :
                    writer' = writer \o SubSeq(new, 1, n)
              /\ consumed' = Append(consumed, c)
              /\ seen' = Append(seen, Flags(Locals))
    /\ result' = "Err"
    /\ UNCHANGED <<indentation, escaped, in_string, indent_level,
                   newline_requested, in_comment>>

NextIO == Next \/ ReadFails \/ WriteFails

\* format_nu_buffered on a reader and a writer that can fail.
SpecIO == Init /\ [][NextIO]_vars

\* ------------------------------------------------ whole-buffer calls
\* Inputs for calls of format_nu on a whole text: a top-level container of
\* one to MaxElems comma-separated elements without whitespace, where an
\* element is a scalar token or a key:value pair of scalar tokens.
Scalars == {<<LETTER>>, <<QUOTE, COMMA, RBRACKET, QUOTE>>}

\* <<s>> is the scalar s, <<k, v>> the pair k:v.
Elements == {<<s>> : s \in Scalars} \cup (Scalars \X Scalars)

ElementLists == UNION {[1..n -> Elements] : n \in 1..MaxElems}

Closer(op) == IF op = LBRACKET THEN RBRACKET ELSE RBRACE

ElementText(e) == IF Len(e) = 1 THEN e[1] ELSE e[1] \o <<COLON>> \o e[2]

RECURSIVE JoinElements(_, _)
\* The texts of the elements from the k-th on, separated by commas.
JoinElements(es, k) ==
    IF k > Len(es) THEN << >>
    ELSE ElementText(es[k]) \o (IF k < Len(es) THEN <<COMMA>> ELSE << >>)
             \o JoinElements(es, k + 1)

FlatText(op, es) == <<op>> \o JoinElements(es, 1) \o <<Closer(op)>>

FlatInputs == {[open |-> op, elems |-> es] : op \in Openers, es \in ElementLists}

InitFlat == Init /\ indentation = Default

\* format_nu(nu, indentation) on a flat container: the loop runs over all
\* of nu.as_bytes() and returns Ok(()).
FormatFlat ==
    /\ result = "running"
    /\ consumed = << >>
    /\ \E x \in FlatInputs :
          LET nu == FlatText(x.open, x.elems)
              s == RunLoop(InitLocals, nu, 1, indentation)
          IN  /\ consumed' = nu
              /\ escaped' = s.escaped
              /\ in_string' = s.in_string
              /\ indent_level' = s.indent_level
              /\ newline_requested' = s.newline_requested
              /\ in_comment' = s.in_comment
              /\ writer' = s.writer
              /\ seen' = [i \in 1..Len(nu) |->
                            Flags(RunLoop(InitLocals, SubSeq(nu, 1, i - 1), 1,
                                          indentation))]
    /\ result' = "Ok"
    /\ UNCHANGED indentation

SpecFlat == InitFlat /\ [][FormatFlat]_vars

\* ------------------------------------------------- whole buffer, UTF-8
MaxChars == 3

\* Two characters outside ASCII, as their UTF-8 encodings: U+00E9, U+20AC.
EAcute == <<195, 169>>

Euro == <<226, 130, 172>>

\* The characters of the texts: every byte the match names in the 10-byte
\* alphabet that is a character of its own, and the two encoded ones.
Chars ==
    {<<NL>>, <<QUOTE>>, <<HASH>>, <<COMMA>>, <<COLON>>, <<LBRACKET>>,
     <<RBRACKET>>, EAcute, Euro}

RECURSIVE TextsUpTo(_)
\* nu.as_bytes() for the strings of at most n characters: a &str is
\* well-formed UTF-8, one whole encoding per character.
TextsUpTo(n) ==
    IF n = 0 THEN {<< >>}
    ELSE LET shorter == TextsUpTo(n - 1)
         IN  shorter \cup {t \o ch : t \in shorter, ch \in Chars}

\* Indentation values whose custom unit, a &str too, is outside ASCII.
Utf8Indentations == {Default, Custom(EAcute), Custom(Euro)}

InitUtf8 ==
    /\ indentation \in Utf8Indentations
    /\ consumed = << >>
    /\ escaped = InitLocals.escaped
    /\ in_string = InitLocals.in_string
    /\ indent_level = InitLocals.indent_level
    /\ newline_requested = InitLocals.newline_requested
    /\ in_comment = InitLocals.in_comment
    /\ writer = InitLocals.writer
    /\ result = "running"
    /\ seen = << >>

\* format_nu(nu, indentation) on a text: the loop runs over all of
\* nu.as_bytes() and returns Ok(()); String::from_utf8(..).unwrap() then
\* returns the text or panics.
FormatUtf8 ==
    /\ result = "running"
    /\ consumed = << >>
    /\ \E nu \in TextsUpTo(MaxChars) :
          LET s == RunLoop(InitLocals, nu, 1, indentation)
          IN  /\ consumed' = nu
              /\ escaped' = s.escaped
              /\ in_string' = s.in_string
              /\ indent_level' = s.indent_level
              /\ newline_requested' = s.newline_requested
              /\ in_comment' = s.in_comment
              /\ writer' = s.writer
              /\ seen' = [i \in 1..Len(nu) |->
                            Flags(RunLoop(InitLocals, SubSeq(nu, 1, i - 1), 1,
                                          indentation))]
              /\ result' = IF format_nu(nu, indentation) = Panic
                           THEN "Panic" ELSE "Ok"
    /\ UNCHANGED indentation

SpecUtf8 == InitUtf8 /\ [][FormatUtf8]_vars

\* --------------------------------------------------------------- typing
TypeOK ==
    /\ indentation \in Indentations
    /\ escaped \in BOOLEAN /\ in_string \in BOOLEAN /\ in_comment \in BOOLEAN
    /\ newline_requested \in BOOLEAN
    /\ indent_level \in 0..Len(consumed)
    /\ result \in {"running", "Ok", "Err"}
    /\ \* without a failure the stepwise run and the whole-buffer function agree
       result # "Err" => Bytes(writer) = format_nu_buffered(consumed, indentation)
    /\ \* the history is the state each byte was read with
       /\ Len(seen) = Len(consumed)
       /\ \A i \in 1..Len(consumed) :
             seen[i] = Flags(RunLoop(InitLocals, SubSeq(consumed, 1, i - 1), 1,
                                     indentation))

\* ------------------------------------------------- vocabulary of the claims
Idx == 1..Len(consumed)

Wr == 1..Len(writer)

\* The write sites that copy the current input byte / that synthesize bytes.
EchoSites == {"comment", "string", "colon", "push"}

SyntheticSites == {"newline", "indent", "space"}

\* The flags and the level as they are when the i-th byte is read; past
\* the last byte read, as they are now.
StateBefore(i) == IF i <= Len(seen) THEN seen[i] ELSE Flags(Locals)

\* The i-th byte is read in Normal mode: in neither a string nor a comment.
NormalAt(i) == ~StateBefore(i).in_string /\ ~StateBefore(i).in_comment

\* The writer entries i..j of the input produce, from writer position k on,
\* are exactly the bytes consumed[i..j], one entry each, adjacent and in
\* order, and nothing else is written for them from position k on.
EchoedVerbatim(i, j, k) ==
    /\ k + (j - i) <= Len(writer)
    /\ \A m \in 0..(j - i) :
          /\ writer[k + m].byte = consumed[i + m]
          /\ writer[k + m].at = i + m
          /\ writer[k + m].site \in EchoSites
    /\ \A k2 \in Wr :
          /\ (writer[k2].at \in (i + 1)..j) => k2 \in (k + 1)..(k + (j - i))
          /\ (writer[k2].at = i /\ k2 >= k) => k2 = k
          /\ (writer[k2].at = i /\ writer[k2].site \in EchoSites) => k2 = k

\* ------------------------------------------------------------------- C1
\* C1: idempotence -- formatting the result of format_nu again, with the
\* same indentation, returns it unchanged.
C1_Idempotent ==
    result = "Ok" =>
        format_nu(format_nu(consumed, indentation), indentation)
            = format_nu(consumed, indentation)

\* ------------------------------------------------------------------- C2
RawWhitespace == {SP, TAB, NL}

\* C2: a raw whitespace byte (space, tab, newline) read in Normal mode
\* produces no output byte at all.
C2_RawWhitespaceDiscarded ==
    \A i \in Idx :
        (consumed[i] \in RawWhitespace /\ NormalAt(i)) =>
            ~\E k \in Wr : writer[k].at = i

\* ------------------------------------------------------------------- C3
\* The number of consecutive backslashes directly before position j,
\* looking back no further than position i + 1.
BackslashRun(s, i, j) ==
    CHOOSE n \in 0..(j - i - 1) :
        /\ \A m \in 1..n : s[j - m] = BACKSLASH
        /\ (n = j - i - 1 \/ s[j - n - 1] # BACKSLASH)

\* The quotes that can close a string opened at i: those after an even
\* number of backslashes.
ClosingQuotes(s, i) ==
    {j \in (i + 1)..Len(s) : s[j] = QUOTE /\ BackslashRun(s, i, j) % 2 = 0}

Least(S) == CHOOSE x \in S : \A y \in S : x <= y

\* Last byte of the string opened at i: its closing quote, or the end of
\* the input read so far when the string is not closed yet.
StringEnd(i) ==
    IF ClosingQuotes(consumed, i) = {} THEN Len(consumed)
    ELSE Least(ClosingQuotes(consumed, i))

\* C3: from a `"` read in Normal mode up to and including the closing
\* unescaped `"`, every byte is written exactly once, unchanged, in order,
\* with no synthetic byte in between.
C3_StringPreserved ==
    \A i \in Idx :
        (consumed[i] = QUOTE /\ NormalAt(i)) =>
            \E k \in Wr : EchoedVerbatim(i, StringEnd(i), k)

\* A closed string that holds an escaped quote has been formatted.
C3_Witness ==
    /\ result = "Ok"
    /\ \E i \in Idx :
          /\ consumed[i] = QUOTE /\ NormalAt(i)
          /\ ClosingQuotes(consumed, i) # {}
          /\ \E m \in (i + 1)..(StringEnd(i) - 1) : consumed[m] = QUOTE

\* ------------------------------------------------------------------- C4
\* Last byte of the comment opened at i: the first newline after i, or the
\* end of the input read so far.
CommentEnd(i) ==
    LET nls == {j \in (i + 1)..Len(consumed) : consumed[j] = NL}
    IN  IF nls = {} THEN Len(consumed) ELSE Least(nls)

\* C4: from a `#` read in Normal mode through the terminating newline (or
\* the end of input), every byte is written exactly once, unchanged, in
\* order, with no synthetic byte inside the run.
C4_CommentPreserved ==
    \A i \in Idx :
        (consumed[i] = HASH /\ NormalAt(i)) =>
            \E k \in Wr : EchoedVerbatim(i, CommentEnd(i), k)

\* A comment holding a structural byte has been ended by its newline, and a
\* byte after it has been read.
C4_Witness ==
    \E i \in Idx :
        /\ consumed[i] = HASH /\ NormalAt(i)
        /\ CommentEnd(i) < Len(consumed)
        /\ consumed[CommentEnd(i)] = NL
        /\ \E m \in (i + 1)..(CommentEnd(i) - 1) :
              consumed[m] \in Openers \cup {COMMA, COLON, QUOTE}

\* ------------------------------------------------------------------- C5
Matching(c) == IF c = LBRACKET THEN RBRACKET ELSE RBRACE

\* C5: an opener read in Normal mode and directly followed by its matching
\* closer is written with the closer right after it: no newline, no indent.
C5_EmptyContainerCompact ==
    \A i \in 1..(Len(consumed) - 1) :
        (consumed[i] \in Openers /\ NormalAt(i)
            /\ consumed[i + 1] = Matching(consumed[i])) =>
            \E k \in 1..(Len(writer) - 1) :
                /\ writer[k].at = i /\ writer[k].byte = consumed[i]
                /\ writer[k + 1].at = i + 1
                /\ writer[k + 1].byte = consumed[i + 1]

\* ------------------------------------------------------------------- C6
\* Openers / closers read in Normal mode among the first n bytes.
OpenCount(n) ==
    Cardinality({m \in 1..n : consumed[m] \in Openers /\ NormalAt(m)})

CloseCount(n) ==
    Cardinality({m \in 1..n : consumed[m] \in Closers /\ NormalAt(m)})

\* Openers minus closers of the first n bytes.
Balance(n) == OpenCount(n) - CloseCount(n)

\* No prefix of the input read so far closes more than it opened.
WellNested == \A n \in Idx : Balance(n) >= 0

\* The indent bytes written while the i-th byte was handled.
IndentBytesAt(i) ==
    Cardinality({k \in Wr : writer[k].at = i /\ writer[k].site = "indent"})

\* The i-th byte's iteration wrote a line break.
BreakAt(i) == \E k \in Wr : writer[k].at = i /\ writer[k].site = "newline"

UnitLen == Len(IndentUnit(indentation))

\* The closer at j closes the container opened at i.
ClosesAt(i, j) ==
    /\ consumed[j] \in Closers /\ NormalAt(j)
    /\ Balance(j) = Balance(i - 1)
    /\ \A m \in i..(j - 1) : Balance(m) > Balance(i - 1)

\* C6: in well-nested input, a container that is an element of an enclosing
\* container (its opener directly follows an opener or a comma) has its
\* opener on a new line indented at the depth before the opener is counted,
\* and its closer on a line with the same indent.
C6_OpenerCloserAligned ==
    \A i \in 2..Len(consumed) :
        (/\ WellNested
         /\ consumed[i] \in Openers /\ NormalAt(i)
         /\ consumed[i - 1] \in Openers \cup {COMMA} /\ NormalAt(i - 1)
         /\ Balance(i - 1) >= 1) =>
            /\ BreakAt(i)
            /\ IndentBytesAt(i) = Balance(i - 1) * UnitLen
            /\ \A j \in (i + 1)..Len(consumed) :
                  ClosesAt(i, j) =>
                      BreakAt(j) /\ IndentBytesAt(j) = IndentBytesAt(i)

\* ------------------------------------------------------------------- C7
ElementLine(e) == IF Len(e) = 1 THEN e[1] ELSE e[1] \o <<COLON, SP>> \o e[2]

RECURSIVE ElementLines(_, _)
\* One line per element from the k-th on: a newline, two spaces, the
\* element, and a comma unless it is the last.
ElementLines(es, k) ==
    IF k > Len(es) THEN << >>
    ELSE <<NL, SP, SP>> \o ElementLine(es[k])
             \o (IF k < Len(es) THEN <<COMMA>> ELSE << >>)
             \o ElementLines(es, k + 1)

\* The layout C7 states for a flat container.
FlatLayout(op, es) ==
    <<op>> \o ElementLines(es, 1) \o <<NL, IF op = LBRACKET THEN RBRACKET ELSE RBRACE>>

FlatCases ==
    {[text |-> FlatText(x.open, x.elems),
      layout |-> FlatLayout(x.open, x.elems),
      elems |-> x.elems] : x \in FlatInputs}

\* C7: a flat top-level container is written, under the default
\* indentation, as the opener, one two-space-indented line per element with
\* a comma after all but the last, and the closer on a line of its own at
\* indent zero, with no trailing newline.
C7_FlatContainerLayout ==
    result = "Ok" =>
        \A x \in FlatCases :
            consumed = x.text =>
                /\ Bytes(writer) = x.layout
                /\ format_nu(x.text, Default) = x.layout

\* A container of at least two elements, one of them a key:value pair, has
\* been formatted.
C7_Witness ==
    /\ result = "Ok"
    /\ \E x \in FlatCases :
          /\ consumed = x.text
          /\ Len(x.elems) >= 2
          /\ \E k \in 1..Len(x.elems) : Len(x.elems[k]) = 2
          /\ \E k \in 1..Len(x.elems) : Len(x.elems[k]) = 1

\* ------------------------------------------------------------------- C8
Max0(x) == IF x > 0 THEN x ELSE 0

RECURSIVE OpenNow(_)
\* The delimiters open after the first n bytes: a Normal-mode opener opens
\* one, a Normal-mode closer closes one if any is open.
OpenNow(n) ==
    IF n = 0 THEN 0
    ELSE IF consumed[n] \in Openers /\ NormalAt(n) THEN OpenNow(n - 1) + 1
    ELSE IF consumed[n] \in Closers /\ NormalAt(n) THEN Max0(OpenNow(n - 1) - 1)
    ELSE OpenNow(n - 1)

EchoesOf(i) == {k \in Wr : writer[k].at = i /\ writer[k].site \in EchoSites}

\* The synthetic bytes written while the i-th byte was handled.
SyntheticAt(i) ==
    {k \in Wr : writer[k].at = i /\ writer[k].site \in SyntheticSites}

\* C9: a `:` read in Normal mode is echoed once, directly followed by one
\* synthesized space, and leaves newline_requested false; a `:` inside a
\* string or comment is echoed once with nothing added.
C9_ColonSeparator ==
    /\ \A i \in Idx :
          consumed[i] = COLON =>
              /\ Cardinality(EchoesOf(i)) = 1
              /\ \A k \in EchoesOf(i) :
                    /\ writer[k].byte = COLON
                    /\ IF NormalAt(i)
                       THEN /\ k + 1 <= Len(writer)
                            /\ writer[k + 1] = Out(SP, "space", i)
                            /\ \A k2 \in Wr :
                                  writer[k2].site = "space" /\ writer[k2].at = i
                                      => k2 = k + 1
                       ELSE SyntheticAt(i) = {}
    /\ (consumed # << >> /\ consumed[Len(consumed)] = COLON
            /\ NormalAt(Len(consumed))) => ~newline_requested

\* A `:` was read in Normal mode with a line break pending, and another one
\* inside a string or comment.
C9_Witness ==
    /\ \E i \in Idx :
          consumed[i] = COLON /\ NormalAt(i) /\ StateBefore(i).newline_requested
    /\ \E i \in Idx : consumed[i] = COLON /\ ~NormalAt(i)

\* ------------------------------------------------------------------ C10
\* indent_level when the i-th byte's line break is written: the match arm
\* has run, and nothing later in the iteration changes it.
LevelAfter(i) == StateBefore(i + 1).indent_level

\* Two spaces for Default, the caller's string for Custom.
ConfiguredUnit ==
    IF indentation.kind = "Default" THEN <<32, 32>> ELSE indentation.unit

\* C10: every synthetic line break is one newline byte directly followed
\* by exactly indent_level copies of the configured unit, and no indent
\* byte is written without its newline.
C10_LineBreakShape ==
    /\ \A k \in Wr :
          writer[k].site = "newline" =>
              LET i == writer[k].at
                  u == ConfiguredUnit
                  n == LevelAfter(i) * Len(u)
              IN  /\ writer[k].byte = NL
                  /\ k + n <= Len(writer)
                  /\ \A m \in 1..n :
                        writer[k + m] = Out(u[((m - 1) % Len(u)) + 1], "indent", i)
                  /\ (k + n + 1 <= Len(writer)
                        => writer[k + n + 1].site # "indent")
    /\ \A k \in Wr :
          writer[k].site = "indent" =>
              /\ k > 1
              /\ writer[k - 1].site \in {"newline", "indent"}
              /\ writer[k - 1].at = writer[k].at

\* With a multi-character unit, one line break was written at level zero
\* and one at a deeper level.
C10_Witness ==
    /\ Len(ConfiguredUnit) >= 2
    /\ \E i, j \in Idx :
          BreakAt(i) /\ LevelAfter(i) = 0 /\ BreakAt(j) /\ LevelAfter(j) >= 1

\* ------------------------------------------------------------------ C11
\* C11: indent_level is never negative, and a closer read in Normal mode at
\* level zero leaves the level at zero and is still echoed, once, with no
\* indent written for it.
C11_UnmatchedClosersAbsorbed ==
    /\ indent_level >= 0
    /\ \A i \in Idx :
          /\ StateBefore(i).indent_level >= 0
          /\ (consumed[i] \in Closers /\ NormalAt(i)
                /\ StateBefore(i).indent_level = 0) =>
                /\ LevelAfter(i) = 0
                /\ Cardinality(EchoesOf(i)) = 1
                /\ \A k \in EchoesOf(i) :
                      writer[k].byte = consumed[i] /\ writer[k].site = "push"
                /\ IndentBytesAt(i) = 0

\* Two closers were read in Normal mode at level zero, then another byte.
C11_Witness ==
    /\ UnitLen > 0
    /\ \E i \in Idx :
          /\ i + 2 <= Len(consumed)
          /\ consumed[i] \in Closers /\ NormalAt(i)
          /\ consumed[i + 1] \in Closers /\ NormalAt(i + 1)
          /\ StateBefore(i).indent_level = 0

\* ------------------------------------------------------------------ C12
IsPrefix(a, b) == Len(a) <= Len(b) /\ SubSeq(b, 1, Len(a)) = a

\* What a run without failure writes for the bytes read so far.
WholeOutput == RunLoop(InitLocals, consumed, 1, indentation).writer

\* What a run without failure writes for all but the last byte read.
OutputBeforeLast ==
    RunLoop(InitLocals, SubSeq(consumed, 1, Len(consumed) - 1), 1,
            indentation).writer

\* After a failure the output holds what was written before it and nothing
\* else; a call that ends without failure has handled every byte read,
\* each once and in order.
OutputAtReturn ==
    /\ result = "Err" =>
          /\ IsPrefix(writer, WholeOutput)
          /\ consumed # << >> => IsPrefix(OutputBeforeLast, writer)
          /\ Len(seen) = Len(consumed)
    /\ result = "Ok" => writer = WholeOutput /\ Len(seen) = Len(consumed)

\* A step that reports a failure reads at most the byte whose handling
\* failed and only appends to the output; after the failure nothing is
\* read or written and the result stays the failure.
FailureStep ==
    /\ result' = "Err" /\ result # "Err" =>
          /\ result = "running"
          /\ IsPrefix(writer, writer')
          /\ consumed' = consumed
                \/ \E c \in Byte : consumed' = Append(consumed, c)
    /\ result = "Err" =>
          consumed' = consumed /\ writer' = writer /\ result' = "Err"

\* C12: a failed read or write ends the pass at once: the failure is
\* returned, nothing is retried, no byte is read or written after it and
\* the output holds only what was written before it; without a failure the
\* call returns success after handling every input byte exactly once.
C12_FailureAborts == [](OutputAtReturn) /\ [][FailureStep]_vars

\* A write failed in the middle of a line break: its newline is in the
\* output, its indent is not.
C12_Witness ==
    /\ result = "Err"
    /\ writer # << >>
    /\ writer[Len(writer)].site = "newline"
    /\ writer[Len(writer)].at = Len(consumed)
    /\ Len(WholeOutput) > Len(writer)
    /\ WholeOutput[Len(writer) + 1].site = "indent"

\* ------------------------------------------------------------------ C13
\* The bytes a byte produces itself: its echo and the space after a `:`.
OwnSites == EchoSites \cup {"space"}

\* C13: when a byte other than a raw newline is handled in Normal mode with
\* a line break pending, the newline and its indent are written before
\* every output byte the byte produces itself.
C13_BreakBeforeByte ==
    \A i \in Idx :
        (NormalAt(i) /\ StateBefore(i).newline_requested /\ consumed[i] # NL) =>
            /\ BreakAt(i)
            /\ \A k1, k2 \in Wr :
                  (/\ writer[k1].at = i /\ writer[k2].at = i
                   /\ writer[k1].site \in {"newline", "indent"}
                   /\ writer[k2].site \in OwnSites) => k1 < k2

\* ------------------------------------------------------------------ C14
\* Everything written while the i-th byte was handled, in order.
WrittenAt(i) == LET during(e) == e.at = i IN SelectSeq(writer, during)

\* A line break at the given level, written while the i-th byte is handled.
BreakEntries(level, i) ==
    <<Out(NL, "newline", i)>> \o
        [m \in 1..(level * Len(ConfiguredUnit)) |->
            Out(ConfiguredUnit[((m - 1) % Len(ConfiguredUnit)) + 1], "indent", i)]

\* C14: a closer read in Normal mode with no line break pending decrements
\* indent_level (saturating), then writes one line break at the decremented
\* level, then is echoed: it is the first byte after the indent of its line.
C14_CloserOnOwnLine ==
    \A i \in Idx :
        (consumed[i] \in Closers /\ NormalAt(i)
            /\ ~StateBefore(i).newline_requested) =>
            LET outer == Max0(StateBefore(i).indent_level - 1)
            IN  /\ LevelAfter(i) = outer
                /\ WrittenAt(i) =
                      BreakEntries(outer, i) \o <<Out(consumed[i], "push", i)>>

\* The closer of a non-empty container nested in another one was written,
\* with a visible indent unit.
C14_Witness ==
    /\ UnitLen > 0
    /\ \E i \in Idx :
          /\ consumed[i] \in Closers /\ NormalAt(i)
          /\ ~StateBefore(i).newline_requested
          /\ StateBefore(i).indent_level >= 2

\* ------------------------------------------------------------------ C15
\* The byte boundaries: before each byte read so far, and after the last.
Boundaries == 1..(Len(consumed) + 1)

\* The opening quote of the string the i-th byte is read in: the last byte
\* before it that was not read inside a string.
StringStart(i) ==
    CHOOSE j \in 1..(i - 1) :
        /\ ~StateBefore(j).in_string
        /\ \A m \in (j + 1)..(i - 1) : StateBefore(m).in_string

\* C15: a `"` read inside a string returns to Normal mode exactly when an
\* even number of consecutive backslashes of the string precede it; escaped
\* is true at a byte boundary exactly when in_string holds and the byte just
\* read was a backslash read with escaped false, so it is false on entering
\* a string and never true outside one.
C15_StringTermination ==
    /\ \A i \in Idx :
          (consumed[i] = QUOTE /\ StateBefore(i).in_string) =>
              /\ consumed[StringStart(i)] = QUOTE
              /\ NormalAt(StringStart(i))
              /\ NormalAt(i + 1) <=>
                    (BackslashRun(consumed, StringStart(i), i) % 2 = 0)
    /\ \A j \in Boundaries :
          /\ StateBefore(j).escaped <=>
                /\ StateBefore(j).in_string
                /\ j > 1
                /\ consumed[j - 1] = BACKSLASH
                /\ ~StateBefore(j - 1).escaped
          /\ StateBefore(j).escaped => StateBefore(j).in_string
          /\ ~(StateBefore(j).in_string /\ StateBefore(j).in_comment)
    /\ \A i \in Idx :
          (consumed[i] = QUOTE /\ NormalAt(i)) =>
              StateBefore(i + 1).in_string /\ ~StateBefore(i + 1).escaped

\* A string was closed by a quote that follows two backslashes.
C15_Witness ==
    \E i \in Idx :
        /\ consumed[i] = QUOTE /\ StateBefore(i).in_string
        /\ BackslashRun(consumed, StringStart(i), i) = 2
        /\ NormalAt(i + 1)

\* ------------------------------------------------------------------ C16
\* The line break of the j-th byte's iteration comes before every byte that
\* iteration writes for the byte itself.
BreakPrecedesByte(j) ==
    /\ BreakAt(j)
    /\ \A k1, k2 \in Wr :
          (/\ writer[k1].at = j /\ writer[k2].at = j
           /\ writer[k1].site \in {"newline", "indent"}
           /\ writer[k2].site \in OwnSites) => k1 < k2

\* C16: a raw newline read in Normal mode writes nothing and leaves every
\* flag and indent_level unchanged; a line break pending before it is
\* still written before the next byte that is not a newline.
C16_RawNewlineInert ==
    \A i \in Idx :
        (consumed[i] = NL /\ NormalAt(i)) =>
            /\ ~\E k \in Wr : writer[k].at = i
            /\ StateBefore(i + 1) = StateBefore(i)
            /\ \A j \in Idx :
                  (/\ j > i
                   /\ StateBefore(i).newline_requested
                   /\ consumed[j] # NL
                   /\ \A m \in i..(j - 1) : consumed[m] = NL) =>
                      BreakPrecedesByte(j)

\* ------------------------------------------------------------------ C17
\* The i-th byte is content: not raw whitespace read in Normal mode.
Content(i) == ~(consumed[i] \in RawWhitespace /\ NormalAt(i))

\* The input read so far with its Normal-mode whitespace removed.
ContentOfInput ==
    LET kept == SelectSeq([i \in Idx |-> i], Content)
    IN  [k \in 1..Len(kept) |-> consumed[kept[k]]]

\* The output written so far with its synthetic bytes removed.
ContentOfOutput ==
    LET echoed(e) == e.site \notin SyntheticSites
    IN  Bytes(SelectSeq(writer, echoed))

\* C17: every input byte that is not raw whitespace in Normal mode is
\* written exactly once, unchanged and in input order; every other output
\* byte is a synthetic newline, indent byte or the space after `:`; the
\* output without its synthetic bytes is the input without its Normal-mode
\* whitespace.
C17_NoContentLost ==
    /\ \A i \in Idx :
          Content(i) =>
              /\ Cardinality(EchoesOf(i)) = 1
              /\ \A k \in EchoesOf(i) : writer[k].byte = consumed[i]
    /\ \A k \in Wr :
          \/ writer[k].site \in SyntheticSites
          \/ writer[k].at \in Idx /\ Content(writer[k].at)
    /\ \A k1, k2 \in Wr :
          (/\ writer[k1].site \in EchoSites /\ writer[k2].site \in EchoSites
           /\ writer[k1].at < writer[k2].at) => k1 < k2
    /\ ContentOfOutput = ContentOfInput

\* ------------------------------------------------------------------ C18
\* Every byte of the output was written while some input byte was handled,
\* and the output held, during the run and at return, is the output of the
\* function for the input read so far.
OutputFollowsInput ==
    /\ \A k \in Wr :
          /\ writer[k].at \in Idx
          /\ k > 1 => writer[k - 1].at <= writer[k].at
    /\ Bytes(writer) = format_nu_buffered(consumed, indentation)

\* A step extends the input by at most one byte and only appends to the
\* output: the output for the shorter input is a prefix of the output for
\* the longer one.  The step that ends the run writes nothing, whatever is
\* pending.
OutputOnlyGrows ==
    /\ consumed' = consumed \/ \E c \in Byte : consumed' = Append(consumed, c)
    /\ IsPrefix(writer, writer')
    /\ (result # "Ok" /\ result' = "Ok") =>
          /\ writer' = writer
          /\ consumed' = consumed

\* C18: output is written only in response to an input byte and nothing is
\* written at end of stream, so the output for a prefix of an input is a
\* prefix of the output for the input; a pending line break, an open string
\* or comment and a non-zero indent_level add nothing at the end.
C18_StreamingPrefix == [](OutputFollowsInput) /\ [][OutputOnlyGrows]_vars

\* The run ended with a line break pending inside an open container.
C18_Witness ==
    /\ result = "Ok"
    /\ newline_requested
    /\ indent_level > 0
    /\ UnitLen > 0
    /\ consumed # << >>

\* ------------------------------------------------------------------ C19
\* C19: a byte read inside a string or a comment, structural or not, leaves
\* indent_level and newline_requested as they were and writes no synthetic
\* byte; newline_requested is false at every boundary inside a string or a
\* comment, so the first Normal-mode byte after one has no pending line
\* break: the only line break it can get is the one a closer writes itself.
C19_InertInsideStringAndComment ==
    /\ \A i \in Idx :
          ~NormalAt(i) =>
              /\ LevelAfter(i) = StateBefore(i).indent_level
              /\ StateBefore(i + 1).newline_requested =
                    StateBefore(i).newline_requested
              /\ SyntheticAt(i) = {}
    /\ \A j \in Boundaries :
          (StateBefore(j).in_string \/ StateBefore(j).in_comment) =>
              ~StateBefore(j).newline_requested
    /\ \A i \in Idx :
          (i > 1 /\ NormalAt(i) /\ ~NormalAt(i - 1)) =>
              /\ ~StateBefore(i).newline_requested
              /\ BreakAt(i) => consumed[i] \in Closers

\* An opener or a comma was read inside a string or a comment, and a byte
\* that is neither a closer nor a newline was read in Normal mode right
\* after that string or comment.
C19_Witness ==
    \E i, j \in Idx :
        /\ i < j
        /\ ~NormalAt(i) /\ consumed[i] \in Openers \cup {COMMA}
        /\ \A m \in i..(j - 1) : ~NormalAt(m)
        /\ NormalAt(j) /\ consumed[j] \notin Closers \cup {NL}

\* ------------------------------------------------------------------ C20
\* A byte outside ASCII: 0x80 and above.
NonAscii(b) == b >= 128

\* C20: on well-formed UTF-8 text with a well-formed indent unit, format_nu
\* returns text: the written bytes are well-formed UTF-8.  Every byte
\* outside ASCII is written exactly once; two such bytes that are
\* neighbours in the input are neighbours in the output; a synthetic byte is
\* written while an ASCII byte is handled, or before a non-ASCII byte that
\* follows an ASCII byte.
C20_TextStaysUtf8 ==
    result # "running" =>
        /\ result = "Ok"
        /\ IsUtf8(Bytes(writer))
        /\ format_nu(consumed, indentation) = Bytes(writer)
        /\ \A i \in Idx :
              NonAscii(consumed[i]) =>
                  /\ Cardinality(EchoesOf(i)) = 1
                  /\ \A k \in EchoesOf(i) : writer[k].byte = consumed[i]
        /\ \A i \in Idx :
              (i < Len(consumed) /\ NonAscii(consumed[i])
                  /\ NonAscii(consumed[i + 1])) =>
                  \A k \in EchoesOf(i) : EchoesOf(i + 1) = {k + 1}
        /\ \A k \in Wr :
              (writer[k].site \in SyntheticSites
                  /\ NonAscii(consumed[writer[k].at])) =>
                  /\ writer[k].at > 1
                  /\ ~NonAscii(consumed[writer[k].at - 1])
                  /\ \A e \in EchoesOf(writer[k].at) : k < e

\* A text was returned in which a character outside ASCII, read in Normal
\* mode, was put on a new line indented with a unit outside ASCII.
C20_Witness ==
    /\ result = "Ok"
    /\ NonAscii(ConfiguredUnit[1])
    /\ \E i \in Idx :
          /\ i < Len(consumed)
          /\ NonAscii(consumed[i]) /\ NonAscii(consumed[i + 1])
          /\ NormalAt(i)
          /\ BreakAt(i) /\ IndentBytesAt(i) > 0

====
